---- MODULE Spec2Model ----
(***************************************************************************)
(* Task orchestrator of redBook (src/src/services/task-orchestrator.ts):   *)
(* plan store, topological layering of task steps (Kahn's algorithm) and   *)
(* the layer-by-layer plan executor with cascading failure.                *)
(***************************************************************************)
EXTENDS Integers, Sequences, FiniteSets, TLC

VARIABLES
    planStore,    \* planStore: Map<planId, ExecutionPlan>
    stepIndex,    \* stepIndex: Map<stepId, planId>
    planCounter,  \* let planCounter
    stepCounter,  \* let stepCounter
    now,          \* the value Date.now() returns
    calls,        \* the executePlan calls made so far, one record each
    edits,        \* how often a caller rewired the steps of a returned plan
    sortInput,    \* argument of a direct topologicalSort(steps) call
    sortResult,   \* what that call returned or threw (NotCalled before it)
    created,      \* the createPlan calls made so far: the intent, the plan returned
    answer        \* the last getTaskStatus or getPlan call and what it gave

vars == <<planStore, stepIndex, planCounter, stepCounter, now, calls, edits,
          sortInput, sortResult, created, answer>>

----------------------------------------------------------------------------
(* Bounds of the model. *)

\* largest number of steps of a step list handed to topologicalSort directly
MaxSteps == 3
\* largest number of entries of the dependencies arrays of such a list, in all
MaxEdges == 4

----------------------------------------------------------------------------
(* Identifiers. *)

\* `step-${Date.now()}-${stepCounter}`: the text is determined by, and
\* determines, the pair (timestamp, counter).
StepIdText(t, n) == <<"step", t, n>>
PlanIdText(t, n) == <<"plan", t, n>>

\* an id no generated step carries (the counters are incremented before use)
UnknownId == StepIdText(0, 0)

----------------------------------------------------------------------------
(* Step results. *)

\* step.result: unset, the value an executor call returned (the model names
\* it by the number of the executePlan call), or { error: message }
Undefined == [kind |-> "undefined", error |-> "", value |-> 0]
ValueResult(v) == [kind |-> "value", error |-> "", value |-> v]
ErrorResult(message) == [kind |-> "error object", error |-> message, value |-> 0]

\* new Map()
NoEntries == [k \in {} |-> 0]

----------------------------------------------------------------------------
(* topologicalSort(steps): string[][]                                      *)

\* keys of a Map filled by set(step.id, ...) in list order: insertion order,
\* a repeated key keeps its first position
RECURSIVE MapKeys(_, _)
MapKeys(steps, n) ==
    IF n = 0 THEN <<>>
    ELSE LET k == MapKeys(steps, n - 1)
         IN  IF \E j \in 1..Len(k) : k[j] = steps[n].id
             THEN k
             ELSE Append(k, steps[n].id)

SeqToSet(s) == {s[i] : i \in DOMAIN s}

\* the (depId, step.id) pairs in the order the two nested loops visit them
RECURSIVE DependencyEdges(_, _)
DependencyEdges(steps, n) ==
    IF n = 0 THEN <<>>
    ELSE DependencyEdges(steps, n - 1) \o
         [j \in 1..Len(steps[n].dependencies) |->
             <<steps[n].dependencies[j], steps[n].id>>]

\* adjacency and inDegree after the first k edges were entered
RECURSIVE BuildGraph(_, _, _)
BuildGraph(ids, edges, k) ==
    IF k = 0
    THEN [inDegree |-> [id \in ids |-> 0], adjacency |-> [id \in ids |-> <<>>]]
    ELSE LET g == BuildGraph(ids, edges, k - 1)
             depId == edges[k][1]
             stepId == edges[k][2]
         IN  [inDegree  |-> [g.inDegree EXCEPT ![stepId] = @ + 1],
              adjacency |-> [g.adjacency EXCEPT ![depId] = Append(@, stepId)]]

\* the successors of the queue's nodes, in the order the loops visit them
RECURSIVE Successors(_, _, _)
Successors(queue, adjacency, n) ==
    IF n = 0 THEN <<>>
    ELSE Successors(queue, adjacency, n - 1) \o adjacency[queue[n]]

\* as Relax, but a successor is queued at every visit
RECURSIVE RelaxEager(_, _, _)
RelaxEager(succ, inDegree, k) ==
    IF k = 0 THEN [inDegree |-> inDegree, nextQueue |-> <<>>]
    ELSE LET r == RelaxEager(succ, inDegree, k - 1)
             succId == succ[k]
             newDegree == r.inDegree[succId] - 1
         IN  [inDegree  |-> [r.inDegree EXCEPT ![succId] = newDegree],
              nextQueue |-> IF newDegree >= 0
                            THEN Append(r.nextQueue, succId)
                            ELSE r.nextQueue]

\* one pass over the successors: decrement, push on reaching zero
RECURSIVE Relax(_, _, _)
Relax(succ, inDegree, k) ==
    IF k = 0 THEN [inDegree |-> inDegree, nextQueue |-> <<>>]
    ELSE LET r == Relax(succ, inDegree, k - 1)
             succId == succ[k]
             newDegree == r.inDegree[succId] - 1
         IN  [inDegree  |-> [r.inDegree EXCEPT ![succId] = newDegree],
              nextQueue |-> IF newDegree = 0
                            THEN Append(r.nextQueue, succId)
                            ELSE r.nextQueue]

\* as LayerLoop, but the queue is consumed one step at a time, each step a
\* layer of its own
RECURSIVE LayerLoopOneByOne(_, _, _, _, _)
LayerLoopOneByOne(queue, inDegree, adjacency, layers, processedCount) ==
    IF queue = <<>>
    THEN [layers |-> layers, processedCount |-> processedCount]
    ELSE LET succ == adjacency[Head(queue)]
             r == Relax(succ, inDegree, Len(succ))
         IN  LayerLoopOneByOne(Tail(queue) \o r.nextQueue, r.inDegree, adjacency,
                               Append(layers, <<Head(queue)>>), processedCount + 1)

\* while (queue.length > 0) { ... }
RECURSIVE LayerLoop(_, _, _, _, _)
LayerLoop(queue, inDegree, adjacency, layers, processedCount) ==
    IF queue = <<>>
    THEN [layers |-> layers, processedCount |-> processedCount]
    ELSE LET succ == Successors(queue, adjacency, Len(queue))
             r == Relax(succ, inDegree, Len(succ))
         IN  LayerLoop(r.nextQueue, r.inDegree, adjacency,
                       Append(layers, queue), processedCount + Len(queue))

Thrown(name, about) == [error |-> name, about |-> about, layers |-> <<>>]
Returned(layers) == [error |-> "none", about |-> UnknownId, layers |-> layers]
NotCalled == [error |-> "not called", about |-> UnknownId, layers |-> <<>>]

\* no getTaskStatus or getPlan call was made yet
NoAnswer == [op |-> "none", arg |-> UnknownId, result |-> NotCalled]

\* as topologicalSort, without the processedCount check
topologicalSortNoCount(steps) ==
    LET keys == MapKeys(steps, Len(steps))
        ids == SeqToSet(keys)
        edges == DependencyEdges(steps, Len(steps))
        missing == {k \in DOMAIN edges : edges[k][1] \notin ids}
    IN  IF missing # {}
        THEN Thrown("not found", edges[CHOOSE k \in missing :
                                         \A m \in missing : k <= m][1])
        ELSE LET g == BuildGraph(ids, edges, Len(edges))
                 queue == SelectSeq(keys, LAMBDA id : g.inDegree[id] = 0)
                 run == LayerLoop(queue, g.inDegree, g.adjacency, <<>>, 0)
             IN  Returned(run.layers)

\* as topologicalSort, with the cycle check before the missing-dependency check
topologicalSortCycleFirst(steps) ==
    LET keys == MapKeys(steps, Len(steps))
        ids == SeqToSet(keys)
        edges == DependencyEdges(steps, Len(steps))
        missing == {k \in DOMAIN edges : edges[k][1] \notin ids}
        known == SelectSeq(edges, LAMBDA e : e[1] \in ids)
        g == BuildGraph(ids, known, Len(known))
        queue == SelectSeq(keys, LAMBDA id : g.inDegree[id] = 0)
        run == LayerLoop(queue, g.inDegree, g.adjacency, <<>>, 0)
    IN  IF run.processedCount # Len(steps)
        THEN Thrown("Circular dependency", UnknownId)
        ELSE IF missing # {}
        THEN Thrown("not found", edges[CHOOSE k \in missing :
                                         \A m \in missing : k <= m][1])
        ELSE Returned(run.layers)

topologicalSort(steps) ==
    LET keys == MapKeys(steps, Len(steps))
        ids == SeqToSet(keys)
        edges == DependencyEdges(steps, Len(steps))
        missing == {k \in DOMAIN edges : edges[k][1] \notin ids}
    IN  IF missing # {}
        THEN Thrown("not found", edges[CHOOSE k \in missing :
                                         \A m \in missing : k <= m][1])
        ELSE LET g == BuildGraph(ids, edges, Len(edges))
                 queue == SelectSeq(keys, LAMBDA id : g.inDegree[id] = 0)
                 run == LayerLoop(queue, g.inDegree, g.adjacency, <<>>, 0)
             IN  IF run.processedCount # Len(steps)
                 THEN Thrown("Circular dependency", UnknownId)
                 ELSE Returned(run.layers)

----------------------------------------------------------------------------
(* Plan builder: getPlanTemplate, buildSteps, createPlan.                  *)

\* the TaskType union, and a value outside it
TaskTypes ==
    {"competitor_analysis", "trending_tracking", "content_generation",
     "content_publish", "strategy_generation", "operation_summary",
     "comment_analysis", "unknown_type"}

\* `execute_${taskType}`
ExecuteKey(taskType) ==
    CASE taskType = "competitor_analysis" -> "execute_competitor_analysis"
      [] taskType = "trending_tracking"   -> "execute_trending_tracking"
      [] taskType = "content_generation"  -> "execute_content_generation"
      [] taskType = "comment_analysis"    -> "execute_comment_analysis"
      [] taskType = "content_publish"     -> "execute_content_publish"
      [] taskType = "strategy_generation" -> "execute_strategy_generation"
      [] taskType = "operation_summary"   -> "execute_operation_summary"
      [] OTHER                            -> "execute_unknown_type"

\* as StepTemplate, with the two fields in each other's place
StepTemplateSwapped(type, descriptionKey) ==
    [type |-> descriptionKey, descriptionKey |-> type]

StepTemplate(type, descriptionKey) ==
    [type |-> type, descriptionKey |-> descriptionKey]

\* as getPlanTemplate, but the strategy step waits for the competitor data only
getPlanTemplateOneSource(taskType) ==
    CASE taskType = "strategy_generation" ->
           [steps |-> <<StepTemplate("competitor_analysis", "collect_competitor_data"),
                        StepTemplate("trending_tracking", "collect_trending_data"),
                        StepTemplate("strategy_generation", "generate_strategy"),
                        StepTemplate("content_generation", "generate_strategy_content")>>,
            dependencies |-> (0 :> <<>> @@ 1 :> <<>> @@ 2 :> <<0>> @@ 3 :> <<2>>)]
      [] taskType = "content_publish" ->
           [steps |-> <<StepTemplate("content_generation", "prepare_content"),
                        StepTemplate("content_publish", "publish_content")>>,
            dependencies |-> (0 :> <<>> @@ 1 :> <<0>>)]
      [] taskType = "operation_summary" ->
           [steps |-> <<StepTemplate("comment_analysis", "analyze_comments"),
                        StepTemplate("operation_summary", "generate_summary")>>,
            dependencies |-> (0 :> <<>> @@ 1 :> <<0>>)]
      [] OTHER ->
           [steps |-> <<StepTemplate(taskType, ExecuteKey(taskType))>>,
            dependencies |-> (0 :> <<>>)]

\* dependencies: step index (from 0) -> the step indices it depends on
getPlanTemplate(taskType) ==
    CASE taskType = "strategy_generation" ->
           [steps |-> <<StepTemplate("competitor_analysis", "collect_competitor_data"),
                        StepTemplate("trending_tracking", "collect_trending_data"),
                        StepTemplate("strategy_generation", "generate_strategy"),
                        StepTemplate("content_generation", "generate_strategy_content")>>,
            dependencies |-> (0 :> <<>> @@ 1 :> <<>> @@ 2 :> <<0, 1>> @@ 3 :> <<2>>)]
      [] taskType = "content_publish" ->
           [steps |-> <<StepTemplate("content_generation", "prepare_content"),
                        StepTemplate("content_publish", "publish_content")>>,
            dependencies |-> (0 :> <<>> @@ 1 :> <<0>>)]
      [] taskType = "operation_summary" ->
           [steps |-> <<StepTemplate("comment_analysis", "analyze_comments"),
                        StepTemplate("operation_summary", "generate_summary")>>,
            dependencies |-> (0 :> <<>> @@ 1 :> <<0>>)]
      [] OTHER ->
           [steps |-> <<StepTemplate(taskType, ExecuteKey(taskType))>>,
            dependencies |-> (0 :> <<>>)]

\* createTestIntent({ taskType }): the intent the tests hand to createPlan
createTestIntent(taskType) ==
    [taskType |-> taskType, platform |-> "xiaohongshu", category |-> "beauty",
     parameters |-> [rawInput |-> "analyse"]]

\* { ...intent.parameters, platform, category, descriptionKey }: the later
\* keys replace equal keys of intent.parameters
StepParameters(intent, stepTemplate) ==
    [k \in DOMAIN intent.parameters \cup {"platform", "category", "descriptionKey"} |->
        CASE k = "platform" -> intent.platform
          [] k = "category" -> intent.category
          [] k = "descriptionKey" -> stepTemplate.descriptionKey
          [] OTHER -> intent.parameters[k]]

\* as buildSteps, but a dependency index is resolved without the count of the
\* steps built before
buildStepsFromFirstId(intent, template, t, counter) ==
    LET stepIds == [i \in DOMAIN template.steps |-> StepIdText(t, counter + i)]
    IN  [i \in DOMAIN template.steps |->
            LET depIndices == IF (i - 1) \in DOMAIN template.dependencies
                              THEN template.dependencies[i - 1]
                              ELSE <<>>
            IN  [id |-> stepIds[i],
                 type |-> template.steps[i].type,
                 dependencies |-> [k \in DOMAIN depIndices |->
                                      StepIdText(t, depIndices[k] + 1)],
                 parameters |-> StepParameters(intent, template.steps[i]),
                 status |-> "pending",
                 result |-> Undefined]]

\* as buildSteps, but a dependency index is resolved one position too low
buildStepsOffByOne(intent, template, t, counter) ==
    LET stepIds == [i \in DOMAIN template.steps |-> StepIdText(t, counter + i)]
    IN  [i \in DOMAIN template.steps |->
            LET depIndices == IF (i - 1) \in DOMAIN template.dependencies
                              THEN template.dependencies[i - 1]
                              ELSE <<>>
            IN  [id |-> stepIds[i],
                 type |-> template.steps[i].type,
                 dependencies |-> [k \in DOMAIN depIndices |->
                                      StepIdText(t, counter + depIndices[k])],
                 parameters |-> StepParameters(intent, template.steps[i]),
                 status |-> "pending",
                 result |-> Undefined]]

\* buildSteps, with the step ids generateStepId hands out from counter + 1 on
buildSteps(intent, template, t, counter) ==
    LET stepIds == [i \in DOMAIN template.steps |-> StepIdText(t, counter + i)]
    IN  [i \in DOMAIN template.steps |->
            LET depIndices == IF (i - 1) \in DOMAIN template.dependencies
                              THEN template.dependencies[i - 1]
                              ELSE <<>>
            IN  [id |-> stepIds[i],
                 type |-> template.steps[i].type,
                 dependencies |-> [k \in DOMAIN depIndices |-> stepIds[depIndices[k] + 1]],
                 parameters |-> StepParameters(intent, template.steps[i]),
                 status |-> "pending",
                 result |-> Undefined]]

\* Map.set(key, value)
MapSet(map, key, value) ==
    [k \in DOMAIN map \cup {key} |-> IF k = key THEN value ELSE map[k]]

\* as IndexSteps, but only the first step of the plan is indexed
IndexStepsFirstOnly(index, steps, planId, n) ==
    IF n = 0 THEN index ELSE MapSet(index, steps[1].id, planId)

\* for (const step of steps) stepIndex.set(step.id, plan.id)
RECURSIVE IndexSteps(_, _, _, _)
IndexSteps(index, steps, planId, n) ==
    IF n = 0 THEN index
    ELSE MapSet(IndexSteps(index, steps, planId, n - 1), steps[n].id, planId)

createPlan(intent) ==
    LET template == getPlanTemplate(intent.taskType)
        steps == buildSteps(intent, template, now, stepCounter)
        planId == PlanIdText(now, planCounter + 1)
        plan == [id |-> planId, steps |-> steps, status |-> "pending",
                 createdAt |-> now]
    IN  /\ stepCounter' = stepCounter + Len(steps)
        /\ planCounter' = planCounter + 1
        /\ planStore' = MapSet(planStore, planId, plan)
        /\ stepIndex' = IndexSteps(stepIndex, steps, planId, Len(steps))
        /\ created' = Append(created, [intent |-> intent, plan |-> plan])
        /\ UNCHANGED <<now, calls, edits, sortInput, sortResult, answer>>

\* planStore.get(planId): the stored plan, or undefined
UndefinedPlan == [id |-> PlanIdText(0, 0), steps |-> <<>>, status |-> "undefined",
                  createdAt |-> 0]

getPlan(planId) ==
    IF planId \in DOMAIN planStore THEN planStore[planId] ELSE UndefinedPlan

\* what getTaskStatus resolves with, or the Error it rejects with
StatusReturned(status) == [error |-> "none", status |-> status]
StatusThrown(error) == [error |-> error, status |-> ""]

getTaskStatus(taskId) ==
    IF taskId \notin DOMAIN stepIndex
    THEN StatusThrown("Task step not found")
    ELSE LET planId == stepIndex[taskId]
         IN  IF planId \notin DOMAIN planStore
             THEN StatusThrown("Plan not found for task step")
             ELSE LET plan == planStore[planId]
                      found == {i \in DOMAIN plan.steps : plan.steps[i].id = taskId}
                  IN  IF found = {}
                      THEN StatusThrown("Task step not found in plan")
                      ELSE StatusReturned(
                               plan.steps[CHOOSE i \in found :
                                              \A j \in found : i <= j].status)

\* as CallGetTaskStatus, but the index entry of the id is dropped after the read
CallGetTaskStatusOnce(taskId) ==
    /\ answer' = [op |-> "getTaskStatus", arg |-> taskId,
                  result |-> getTaskStatus(taskId)]
    /\ stepIndex' = [k \in DOMAIN stepIndex \ {taskId} |-> stepIndex[k]]
    /\ UNCHANGED <<planStore, planCounter, stepCounter, now, calls,
                   edits, sortInput, sortResult, created>>

\* a caller awaits getTaskStatus(taskId)
CallGetTaskStatus(taskId) ==
    /\ answer' = [op |-> "getTaskStatus", arg |-> taskId,
                  result |-> getTaskStatus(taskId)]
    /\ UNCHANGED <<planStore, stepIndex, planCounter, stepCounter, now, calls,
                   edits, sortInput, sortResult, created>>

\* a caller calls getPlan(planId)
CallGetPlan(planId) ==
    /\ answer' = [op |-> "getPlan", arg |-> planId, result |-> getPlan(planId)]
    /\ UNCHANGED <<planStore, stepIndex, planCounter, stepCounter, now, calls,
                   edits, sortInput, sortResult, created>>

\* as clearAllPlans, but the step index is left as it is
clearAllPlansKeepingIndex ==
    /\ planStore' = NoEntries
    /\ planCounter' = 0
    /\ stepCounter' = 0
    /\ UNCHANGED <<stepIndex, now, calls, edits, sortInput, sortResult, created,
                   answer>>

\* as clearAllPlans, but the plan store is left as it is
clearAllPlansKeepingPlans ==
    /\ stepIndex' = NoEntries
    /\ planCounter' = 0
    /\ stepCounter' = 0
    /\ UNCHANGED <<planStore, now, calls, edits, sortInput, sortResult, created,
                   answer>>

clearAllPlans ==
    /\ planStore' = NoEntries
    /\ stepIndex' = NoEntries
    /\ planCounter' = 0
    /\ stepCounter' = 0
    /\ UNCHANGED <<now, calls, edits, sortInput, sortResult, created, answer>>

\* Date.now() has moved on by a millisecond
Tick ==
    /\ now' = now + 1
    /\ UNCHANGED <<planStore, stepIndex, planCounter, stepCounter, calls, edits,
                   sortInput, sortResult, created, answer>>

----------------------------------------------------------------------------
(* A caller holds the plan object createPlan returned, which is the stored *)
(* one, and may rewrite the dependencies arrays of its steps before it     *)
(* executes the plan.                                                      *)

RECURSIVE SortedSeq(_)
SortedSeq(S) ==
    IF S = {} THEN <<>>
    ELSE LET m == CHOOSE x \in S : \A y \in S : x <= y
         IN  <<m>> \o SortedSeq(S \ {m})

\* wirings by step position in which every step depends on earlier steps only
RECURSIVE SoundWirings(_)
SoundWirings(n) ==
    IF n = 0 THEN {<<>>}
    ELSE {Append(w, SortedSeq(S)) : w \in SoundWirings(n - 1), S \in SUBSET (1..(n - 1))}

\* a sound wiring, or one that a single further entry makes invalid: an id
\* that names no step (position 0), the step itself, or a later step that
\* already depends on the step
Wirings(n) ==
    LET sound == SoundWirings(n)
        Closes(w, i, j) == j = 0 \/ j = i \/ (j > i /\ \E k \in DOMAIN w[j] : w[j][k] = i)
    IN  sound \cup
        UNION {{[w EXCEPT ![i] = Append(@, j)] :
                   j \in {x \in 0..n : Closes(w, i, x)}} : w \in sound, i \in 1..n}

RewireSteps(planId, wiring) ==
    LET plan == planStore[planId]
        IdAt(j) == IF j = 0 THEN UnknownId ELSE plan.steps[j].id
        steps == [i \in DOMAIN plan.steps |->
                     [plan.steps[i] EXCEPT
                         !.dependencies = [k \in DOMAIN wiring[i] |-> IdAt(wiring[i][k])]]]
    IN  /\ plan.status = "pending"
        /\ edits' = edits + 1
        /\ planStore' = [planStore EXCEPT ![planId].steps = steps]
        /\ UNCHANGED <<created, answer, stepIndex, planCounter, stepCounter, now, calls,
                       sortInput, sortResult>>

----------------------------------------------------------------------------
(* Direct calls of the exported topologicalSort.                           *)

TestId(i) == StepIdText(0, i)

\* a step as the unit tests of topologicalSort write it
TestStep(i) ==
    [id |-> TestId(i), type |-> "competitor_analysis", dependencies |-> <<>>,
     parameters |-> [descriptionKey |-> ""], status |-> "pending",
     result |-> Undefined]

InitSort ==
    /\ planStore = NoEntries
    /\ stepIndex = NoEntries
    /\ planCounter = 0
    /\ stepCounter = 0
    /\ now = 0
    /\ calls = <<>>
    /\ edits = 0
    /\ sortInput = <<>>
    /\ sortResult = NotCalled
    /\ created = <<>>
    /\ answer = NoAnswer

RECURSIVE EntryCount(_, _)
EntryCount(steps, n) ==
    IF n = 0 THEN 0
    ELSE EntryCount(steps, n - 1) + Len(steps[n].dependencies)

\* the caller writes the next step of the list
PushStep ==
    /\ sortResult = NotCalled
    /\ Len(sortInput) < MaxSteps
    /\ sortInput' = Append(sortInput, TestStep(Len(sortInput) + 1))
    /\ UNCHANGED <<created, answer, planStore, stepIndex, planCounter, stepCounter, now, calls,
                   edits, sortResult>>

\* the caller writes one more id into a dependencies array: the id of a step
\* of the list, of a step not in the list, or 'nonexistent'
PushDependency(i, j) ==
    /\ sortResult = NotCalled
    /\ EntryCount(sortInput, Len(sortInput)) < MaxEdges
    /\ sortInput' = [sortInput EXCEPT ![i].dependencies = Append(@, TestId(j))]
    /\ UNCHANGED <<created, answer, planStore, stepIndex, planCounter, stepCounter, now, calls,
                   edits, sortResult>>

CallTopologicalSort ==
    /\ sortResult = NotCalled
    /\ sortResult' = topologicalSort(sortInput)
    /\ UNCHANGED <<created, answer, planStore, stepIndex, planCounter, stepCounter, now, calls,
                   edits, sortInput>>

NextSort ==
    \/ PushStep
    \/ \E i \in DOMAIN sortInput : \E j \in 0..MaxSteps : PushDependency(i, j)
    \/ CallTopologicalSort

SpecSort == InitSort /\ [][NextSort]_vars

----------------------------------------------------------------------------
(* Step executors.                                                         *)

\* what one executor call does in the end: it returns a value, or it throws
\* (rejects with) an Error, a string, or an object that has no string form
\* (Object.create(null): String(v) throws a TypeError)
Return == [kind |-> "return", class |-> "", text |-> ""]
Throw(class, text) == [kind |-> "throw", class |-> class, text |-> text]
NoOutcome == [kind |-> "none", class |-> "", text |-> ""]

ThrownValues ==
    {Throw("Error", "Data collection failed"),
     Throw("string", "string error"),
     Throw("null-prototype object", "")}

ExecutorOutcomes == {Return} \cup ThrownValues

\* String(error)
StringOf(v) ==
    IF v.class = "null-prototype object"
    THEN [threw |-> TRUE, text |-> ""]
    ELSE [threw |-> FALSE, text |-> v.text]

\* error instanceof Error ? error.message : String(error)
ErrorMessage(v) ==
    IF v.class = "Error" THEN [threw |-> FALSE, text |-> v.text] ELSE StringOf(v)

----------------------------------------------------------------------------
(* executePlan.                                                            *)

\* a plan id that createPlan never hands out
UnknownPlanId == PlanIdText(0, 0)

\* stepMap.get(stepId): the last step of the list that carries the id
StepAt(steps, stepId) ==
    CHOOSE i \in DOMAIN steps :
        /\ steps[i].id = stepId
        /\ \A j \in DOMAIN steps : steps[j].id = stepId => j <= i

\* One executePlan call: where it stands ("awaiting layer" between its
\* start and its end, then "returned" or "threw"), its local variables, one
\* task per step (the async callback of layer.map), and what its executor
\* calls were and did.
NewCall(planId, ids) ==
    [planId |-> planId, state |-> "awaiting layer", error |-> "",
     layers |-> <<>>, layer |-> 0, failedStepIds |-> {},
     tasks |-> [id \in ids |-> "not started"],
     invoked |-> [id \in ids |-> 0],
     outcome |-> [id \in ids |-> NoOutcome]]

\* as DispatchLayer, but only the first step of the layer is started
DispatchLayerFirstOnly(st, layer, k) ==
    IF k = 0 THEN st
    ELSE LET stepId == layer[1]
             i == StepAt(st.steps, stepId)
             hasFailedDependency ==
                 \E d \in DOMAIN st.steps[i].dependencies :
                     st.steps[i].dependencies[d] \in st.call.failedStepIds
         IN  IF hasFailedDependency
             THEN [steps |-> [st.steps EXCEPT
                                 ![i].status = "failed",
                                 ![i].result = ErrorResult("Dependency step failed")],
                   call  |-> [st.call EXCEPT
                                 !.failedStepIds = @ \cup {stepId},
                                 !.tasks[stepId] = "cascaded"]]
             ELSE [steps |-> [st.steps EXCEPT ![i].status = "running"],
                   call  |-> [st.call EXCEPT
                                 !.tasks[stepId] = "awaiting executor",
                                 !.invoked[stepId] = @ + 1]]

\* as DispatchLayer, but a step is skipped as soon as any step has failed
RECURSIVE DispatchLayerAnyFailure(_, _, _)
DispatchLayerAnyFailure(st, layer, k) ==
    IF k = 0 THEN st
    ELSE LET s == DispatchLayerAnyFailure(st, layer, k - 1)
             stepId == layer[k]
             i == StepAt(s.steps, stepId)
         IN  IF s.call.failedStepIds # {}
             THEN [steps |-> [s.steps EXCEPT
                                 ![i].status = "failed",
                                 ![i].result = ErrorResult("Dependency step failed")],
                   call  |-> [s.call EXCEPT
                                 !.failedStepIds = @ \cup {stepId},
                                 !.tasks[stepId] = "cascaded"]]
             ELSE [steps |-> [s.steps EXCEPT ![i].status = "running"],
                   call  |-> [s.call EXCEPT
                                 !.tasks[stepId] = "awaiting executor",
                                 !.invoked[stepId] = @ + 1]]

\* layer.map(async (stepId) => ...), up to the first await of every callback
RECURSIVE DispatchLayer(_, _, _)
DispatchLayer(st, layer, k) ==
    IF k = 0 THEN st
    ELSE LET s == DispatchLayer(st, layer, k - 1)
             stepId == layer[k]
             i == StepAt(s.steps, stepId)
             hasFailedDependency ==
                 \E d \in DOMAIN s.steps[i].dependencies :
                     s.steps[i].dependencies[d] \in s.call.failedStepIds
         IN  IF hasFailedDependency
             THEN [steps |-> [s.steps EXCEPT
                                 ![i].status = "failed",
                                 ![i].result = ErrorResult("Dependency step failed")],
                   call  |-> [s.call EXCEPT
                                 !.failedStepIds = @ \cup {stepId},
                                 !.tasks[stepId] = "cascaded"]]
             ELSE [steps |-> [s.steps EXCEPT ![i].status = "running"],
                   call  |-> [s.call EXCEPT
                                 !.tasks[stepId] = "awaiting executor",
                                 !.invoked[stepId] = @ + 1]]

\* as FinalStatus, but with some() in the place of every()
FinalStatusSomeCompleted(steps, status) ==
    LET hasFailedSteps == \E i \in DOMAIN steps : steps[i].status = "failed"
        allCompleted == \E i \in DOMAIN steps : steps[i].status = "completed"
    IN  IF allCompleted THEN "completed"
        ELSE IF hasFailedSteps THEN "failed"
        ELSE status

\* the plan status after the last layer
FinalStatus(steps, status) ==
    LET hasFailedSteps == \E i \in DOMAIN steps : steps[i].status = "failed"
        allCompleted == \A i \in DOMAIN steps : steps[i].status = "completed"
    IN  IF allCompleted THEN "completed"
        ELSE IF hasFailedSteps THEN "failed"
        ELSE status

\* as EnterLayer, but the dependencies of the steps are emptied at the end
EnterLayerConsumingDependencies(plan, call, n) ==
    IF n > Len(call.layers)
    THEN [plan |-> [plan EXCEPT
                       !.status = FinalStatus(plan.steps, plan.status),
                       !.steps = [i \in DOMAIN plan.steps |->
                                     [plan.steps[i] EXCEPT !.dependencies = <<>>]]],
          call |-> [call EXCEPT !.state = "returned"]]
    ELSE LET d == DispatchLayer([steps |-> plan.steps, call |-> call],
                                call.layers[n], Len(call.layers[n]))
         IN  [plan |-> [plan EXCEPT !.steps = d.steps],
              call |-> [d.call EXCEPT !.layer = n]]

\* for (const layer of layers): enter layer number n, or leave the loop
EnterLayer(plan, call, n) ==
    IF n > Len(call.layers)
    THEN [plan |-> [plan EXCEPT !.status = FinalStatus(plan.steps, plan.status)],
          call |-> [call EXCEPT !.state = "returned"]]
    ELSE LET d == DispatchLayer([steps |-> plan.steps, call |-> call],
                                call.layers[n], Len(call.layers[n]))
         IN  [plan |-> [plan EXCEPT !.steps = d.steps],
              call |-> [d.call EXCEPT !.layer = n]]

\* as executePlan, but a plan id that is not stored is taken for a plan
\* without steps: the call returns
executePlanWithoutLookupCheck(planId) ==
    /\ IF planId \notin DOMAIN planStore
       THEN /\ calls' = Append(calls, [NewCall(planId, {}) EXCEPT
                                          !.state = "returned"])
            /\ UNCHANGED planStore
       ELSE LET plan == [planStore[planId] EXCEPT !.status = "running"]
                sorted == topologicalSort(plan.steps)
                call == NewCall(planId, SeqToSet(MapKeys(plan.steps, Len(plan.steps))))
            IN  IF sorted.error # "none"
                THEN /\ calls' = Append(calls, [call EXCEPT
                                                   !.state = "threw",
                                                   !.error = sorted.error])
                     /\ planStore' = [planStore EXCEPT ![planId] = plan]
                ELSE LET e == EnterLayer(plan, [call EXCEPT !.layers = sorted.layers], 1)
                     IN  /\ calls' = Append(calls, e.call)
                         /\ planStore' = [planStore EXCEPT ![planId] = e.plan]
    /\ UNCHANGED <<created, answer, stepIndex, planCounter, stepCounter, now,
                   edits, sortInput, sortResult>>

\* as executePlan, but every stored plan is marked running
executePlanMarkingEveryPlan(planId) ==
    /\ IF planId \notin DOMAIN planStore
       THEN /\ calls' = Append(calls, [NewCall(planId, {}) EXCEPT
                                          !.state = "threw",
                                          !.error = "Plan not found"])
            /\ UNCHANGED planStore
       ELSE LET marked == [q \in DOMAIN planStore |->
                              [planStore[q] EXCEPT !.status = "running"]]
                plan == marked[planId]
                sorted == topologicalSort(plan.steps)
                call == NewCall(planId, SeqToSet(MapKeys(plan.steps, Len(plan.steps))))
            IN  IF sorted.error # "none"
                THEN /\ calls' = Append(calls, [call EXCEPT
                                                   !.state = "threw",
                                                   !.error = sorted.error])
                     /\ planStore' = marked
                ELSE LET e == EnterLayer(plan, [call EXCEPT !.layers = sorted.layers], 1)
                     IN  /\ calls' = Append(calls, e.call)
                         /\ planStore' = [marked EXCEPT ![planId] = e.plan]
    /\ UNCHANGED <<created, answer, stepIndex, planCounter, stepCounter, now,
                   edits, sortInput, sortResult>>

\* executePlan(planId, executor), up to its first await
executePlan(planId) ==
    /\ IF planId \notin DOMAIN planStore
       THEN /\ calls' = Append(calls, [NewCall(planId, {}) EXCEPT
                                          !.state = "threw",
                                          !.error = "Plan not found"])
            /\ UNCHANGED planStore
       ELSE LET plan == [planStore[planId] EXCEPT !.status = "running"]
                sorted == topologicalSort(plan.steps)
                call == NewCall(planId, SeqToSet(MapKeys(plan.steps, Len(plan.steps))))
            IN  IF sorted.error # "none"
                THEN /\ calls' = Append(calls, [call EXCEPT
                                                   !.state = "threw",
                                                   !.error = sorted.error])
                     /\ planStore' = [planStore EXCEPT ![planId] = plan]
                ELSE LET e == EnterLayer(plan, [call EXCEPT !.layers = sorted.layers], 1)
                     IN  /\ calls' = Append(calls, e.call)
                         /\ planStore' = [planStore EXCEPT ![planId] = e.plan]
    /\ UNCHANGED <<created, answer, stepIndex, planCounter, stepCounter, now, edits,
                   sortInput, sortResult>>

\* as SettleExecutor, but a step whose executor threw is not added to
\* failedStepIds
SettleExecutorForgettingFailure(c, stepId, o) ==
    LET call == calls[c]
        plan == planStore[call.planId]
        i == StepAt(plan.steps, stepId)
        message == ErrorMessage(o)
    IN  /\ call.tasks[stepId] = "awaiting executor"
        /\ IF o.kind = "return"
           THEN /\ planStore' = [planStore EXCEPT
                      ![call.planId].steps[i].status = "completed",
                      ![call.planId].steps[i].result = ValueResult(c)]
                /\ calls' = [calls EXCEPT ![c].tasks[stepId] = "settled",
                                          ![c].outcome[stepId] = o]
           ELSE IF message.threw
           THEN /\ planStore' = [planStore EXCEPT
                      ![call.planId].steps[i].status = "failed"]
                /\ calls' = [calls EXCEPT ![c].tasks[stepId] = "rejected",
                                          ![c].outcome[stepId] = o]
           ELSE /\ planStore' = [planStore EXCEPT
                      ![call.planId].steps[i].status = "failed",
                      ![call.planId].steps[i].result = ErrorResult(message.text)]
                /\ calls' = [calls EXCEPT ![c].tasks[stepId] = "settled",
                                          ![c].outcome[stepId] = o]
        /\ UNCHANGED <<created, answer, stepIndex, planCounter, stepCounter, now, edits,
                       sortInput, sortResult>>

\* an executor call settles and the callback that awaited it runs to its end
SettleExecutor(c, stepId, o) ==
    LET call == calls[c]
        plan == planStore[call.planId]
        i == StepAt(plan.steps, stepId)
        message == ErrorMessage(o)
    IN  /\ call.tasks[stepId] = "awaiting executor"
        /\ IF o.kind = "return"
           THEN /\ planStore' = [planStore EXCEPT
                      ![call.planId].steps[i].status = "completed",
                      ![call.planId].steps[i].result = ValueResult(c)]
                /\ calls' = [calls EXCEPT ![c].tasks[stepId] = "settled",
                                          ![c].outcome[stepId] = o]
           ELSE IF message.threw
           THEN /\ planStore' = [planStore EXCEPT
                      ![call.planId].steps[i].status = "failed"]
                /\ calls' = [calls EXCEPT ![c].tasks[stepId] = "rejected",
                                          ![c].outcome[stepId] = o]
           ELSE /\ planStore' = [planStore EXCEPT
                      ![call.planId].steps[i].status = "failed",
                      ![call.planId].steps[i].result = ErrorResult(message.text)]
                /\ calls' = [calls EXCEPT ![c].tasks[stepId] = "settled",
                                          ![c].outcome[stepId] = o,
                                          ![c].failedStepIds = @ \cup {stepId}]
        /\ UNCHANGED <<created, answer, stepIndex, planCounter, stepCounter, now, edits,
                       sortInput, sortResult>>

\* as ResumeExecutePlan, but it waits for one callback of the layer only
ResumeAfterFirst(c) ==
    LET call == calls[c]
        layer == SeqToSet(call.layers[call.layer])
    IN  /\ call.state = "awaiting layer"
        /\ IF \E id \in layer : call.tasks[id] = "rejected"
           THEN /\ calls' = [calls EXCEPT ![c].state = "threw",
                                          ![c].error = "TypeError"]
                /\ UNCHANGED planStore
           ELSE /\ \E id \in layer : call.tasks[id] \in {"cascaded", "settled"}
                /\ LET e == EnterLayer(planStore[call.planId], call, call.layer + 1)
                   IN  /\ calls' = [calls EXCEPT ![c] = e.call]
                       /\ planStore' = [planStore EXCEPT ![call.planId] = e.plan]
        /\ UNCHANGED <<created, answer, stepIndex, planCounter, stepCounter, now, edits,
                       sortInput, sortResult>>

\* await Promise.all(layerPromises) is over: a callback of the layer rejected,
\* or all of them ran to their end
ResumeExecutePlan(c) ==
    LET call == calls[c]
        layer == SeqToSet(call.layers[call.layer])
    IN  /\ call.state = "awaiting layer"
        /\ IF \E id \in layer : call.tasks[id] = "rejected"
           THEN /\ calls' = [calls EXCEPT ![c].state = "threw",
                                          ![c].error = "TypeError"]
                /\ UNCHANGED planStore
           ELSE /\ \A id \in layer : call.tasks[id] \in {"cascaded", "settled"}
                /\ LET e == EnterLayer(planStore[call.planId], call, call.layer + 1)
                   IN  /\ calls' = [calls EXCEPT ![c] = e.call]
                       /\ planStore' = [planStore EXCEPT ![call.planId] = e.plan]
        /\ UNCHANGED <<created, answer, stepIndex, planCounter, stepCounter, now, edits,
                       sortInput, sortResult>>

----------------------------------------------------------------------------
(* One plan, executed by a caller that makes one executePlan call at a     *)
(* time.                                                                   *)

\* number of executePlan calls
MaxCalls == 1

Init ==
    /\ planStore = NoEntries
    /\ stepIndex = NoEntries
    /\ planCounter = 0
    /\ stepCounter = 0
    /\ now = 0
    /\ calls = <<>>
    /\ edits = 0
    /\ sortInput = <<>>
    /\ sortResult = NotCalled
    /\ created = <<>>
    /\ answer = NoAnswer

\* no executePlan call is running and no executor call is outstanding
Quiescent ==
    \A c \in DOMAIN calls :
        /\ calls[c].state # "awaiting layer"
        /\ \A id \in DOMAIN calls[c].tasks : calls[c].tasks[id] # "awaiting executor"

Next ==
    \/ \E taskType \in TaskTypes : planStore = NoEntries /\ createPlan(createTestIntent(taskType))
    \/ /\ edits = 0
       /\ \E planId \in DOMAIN planStore :
              \E wiring \in Wirings(Len(planStore[planId].steps)) :
                  RewireSteps(planId, wiring)
    \/ \E planId \in DOMAIN planStore \cup {UnknownPlanId} :
           Len(calls) < MaxCalls /\ Quiescent /\ executePlan(planId)
    \/ \E c \in DOMAIN calls : \E stepId \in DOMAIN calls[c].tasks :
           \E o \in ExecutorOutcomes : SettleExecutor(c, stepId, o)
    \/ \E c \in DOMAIN calls : ResumeExecutePlan(c)

Spec == Init /\ [][Next]_vars

----------------------------------------------------------------------------
(* Properties of topologicalSort.                                          *)

UniqueIds(steps) ==
    \A i, j \in DOMAIN steps : steps[i].id = steps[j].id => i = j

StepIdSet(steps) == {steps[i].id : i \in DOMAIN steps}

DirectDeps(steps, id) ==
    UNION {SeqToSet(steps[i].dependencies) :
              i \in {j \in DOMAIN steps : steps[j].id = id}}

KnownDeps(steps) ==
    \A id \in StepIdSet(steps) : DirectDeps(steps, id) \subseteq StepIdSet(steps)

RECURSIVE DepClosure(_, _, _)
DepClosure(steps, S, n) ==
    IF n = 0 THEN S
    ELSE DepClosure(steps, S \cup UNION {DirectDeps(steps, id) : id \in S}, n - 1)

\* the direct and transitive dependencies of a step
TransitiveDeps(steps, id) == DepClosure(steps, DirectDeps(steps, id), Len(steps))

HasCycle(steps) == \E id \in StepIdSet(steps) : id \in TransitiveDeps(steps, id)

\* the set of (layer, position) places at which an id occurs in the layers
Places(layers, id) ==
    {<<l, k>> \in UNION {{l} \X DOMAIN layers[l] : l \in DOMAIN layers} :
        layers[l][k] = id}

\* C1: a step list with unique ids, only known dependencies and no cycle is
\* layered without error: every step id occurs exactly once in the layers,
\* every dependency of a step lies in a strictly earlier layer than the step,
\* and the empty list gives no layers.
C1_LayeringCorrect ==
    (/\ sortResult # NotCalled
     /\ UniqueIds(sortInput) /\ KnownDeps(sortInput) /\ ~HasCycle(sortInput))
    => /\ sortResult.error = "none"
       /\ \A l \in DOMAIN sortResult.layers :
              SeqToSet(sortResult.layers[l]) \subseteq StepIdSet(sortInput)
       /\ \A id \in StepIdSet(sortInput) :
              /\ Cardinality(Places(sortResult.layers, id)) = 1
              /\ \A d \in DirectDeps(sortInput, id) :
                     \A pd \in Places(sortResult.layers, d) :
                         \A ps \in Places(sortResult.layers, id) : pd[1] < ps[1]
       /\ (sortInput = <<>> => sortResult.layers = <<>>)

\* a join with a dependency listed twice, behind a chain: three layers
C1_Witness ==
    /\ sortResult.error = "none"
    /\ Len(sortResult.layers) = 3
    /\ \E i \in DOMAIN sortInput :
           /\ Len(sortInput[i].dependencies) = 2
           /\ sortInput[i].dependencies[1] = sortInput[i].dependencies[2]

\* C7: a step list with unique ids and only known dependencies whose
\* dependency relation has a cycle (a self-dependency included) makes
\* topologicalSort throw 'Circular dependency' and return no layers.
C7_CycleDetected ==
    (/\ sortResult # NotCalled
     /\ UniqueIds(sortInput) /\ KnownDeps(sortInput) /\ HasCycle(sortInput))
    => /\ sortResult.error = "Circular dependency"
       /\ sortResult.layers = <<>>

\* a self-dependency next to a step that could have been layered
C7_Witness ==
    /\ sortResult.error = "Circular dependency"
    /\ \E i, j \in DOMAIN sortInput :
           /\ sortInput[i].id \in SeqToSet(sortInput[i].dependencies)
           /\ sortInput[j].dependencies = <<>>

\* C8: a dependency id that names no step of the list makes topologicalSort
\* throw 'not found' and return no layers, also when the list has a cycle.
C8_UnknownDependency ==
    (sortResult # NotCalled /\ ~KnownDeps(sortInput))
    => /\ sortResult.error = "not found"
       /\ sortResult.about \notin StepIdSet(sortInput)
       /\ sortResult.layers = <<>>

\* an unknown dependency together with a cycle among the known ones
C8_Witness ==
    /\ sortResult.error = "not found"
    /\ HasCycle(sortInput)
    /\ \E id \in StepIdSet(sortInput) :
           id \in TransitiveDeps(sortInput, id) /\ TransitiveDeps(sortInput, id) \subseteq StepIdSet(sortInput)

----------------------------------------------------------------------------
(* Properties of executePlan.                                              *)

StructuralErrors == {"not found", "Circular dependency"}

StepsOf(c) == planStore[calls[c].planId].steps

StepOf(c, id) == StepsOf(c)[StepAt(StepsOf(c), id)]

\* the call ran on a stored plan with a valid dependency graph
RanOnValidPlan(c) ==
    calls[c].error \notin StructuralErrors \cup {"Plan not found"}

\* no later executePlan call was made for the plan of call c
LatestOnPlan(c) ==
    \A c2 \in DOMAIN calls : c2 > c => calls[c2].planId # calls[c].planId

ExecutorThrew(c, id) == calls[c].outcome[id].kind = "throw"

\* the step itself or one of its direct or transitive dependencies threw
Tainted(c, id) ==
    \/ ExecutorThrew(c, id)
    \/ \E d \in TransitiveDeps(StepsOf(c), id) : ExecutorThrew(c, d)

\* C2: once an executePlan call on a structurally valid plan is over, every
\* step with a direct or transitive dependency whose executor threw in that
\* call has status failed and result {error: 'Dependency step failed'}, and
\* the executor was not invoked for it.
C2_CascadeReachesAllDependents ==
    \A c \in DOMAIN calls :
        (RanOnValidPlan(c) /\ LatestOnPlan(c)
            /\ calls[c].state \in {"returned", "threw"})
        => \A id \in DOMAIN calls[c].tasks :
               (\E d \in TransitiveDeps(StepsOf(c), id) : ExecutorThrew(c, d))
               => /\ StepOf(c, id).status = "failed"
                  /\ StepOf(c, id).result = ErrorResult("Dependency step failed")
                  /\ calls[c].invoked[id] = 0

\* C3: when an executePlan call on a structurally valid plan has returned, a
\* step is completed exactly if its own executor call returned normally and
\* none of its direct or transitive dependencies is failed, and it is failed
\* exactly if its own executor or that of a direct or transitive dependency
\* threw: a failure does not reach a step that does not depend on it.
C3_OutcomePerStep ==
    \A c \in DOMAIN calls :
        (calls[c].state = "returned" /\ LatestOnPlan(c))
        => \A id \in DOMAIN calls[c].tasks :
               /\ StepOf(c, id).status = "completed"
                    <=> (/\ calls[c].outcome[id].kind = "return"
                         /\ \A d \in TransitiveDeps(StepsOf(c), id) :
                                StepOf(c, d).status # "failed")
               /\ StepOf(c, id).status = "failed" <=> Tainted(c, id)
               /\ StepOf(c, id).status = "completed" <=> ~Tainted(c, id)

\* the diamond A -> {B, C} -> D in which only the executor of B threw
C3_Witness ==
    \E c \in DOMAIN calls :
        /\ calls[c].state = "returned"
        /\ Len(StepsOf(c)) = 4
        /\ LET st == StepsOf(c)
           IN  /\ st[1].dependencies = <<>>
               /\ st[2].dependencies = <<st[1].id>>
               /\ st[3].dependencies = <<st[1].id>>
               /\ st[4].dependencies = <<st[2].id, st[3].id>>
               /\ ExecutorThrew(c, st[2].id)
               /\ ~ExecutorThrew(c, st[1].id) /\ ~ExecutorThrew(c, st[3].id)
               /\ st[1].status = "completed" /\ st[3].status = "completed"
               /\ st[2].status = "failed" /\ st[4].status = "failed"

\* C4: when an executePlan call has returned, the plan is completed if every
\* step is completed and failed otherwise, never pending or running.
C4_PlanStatusAtReturn ==
    \A c \in DOMAIN calls :
        (calls[c].state = "returned" /\ LatestOnPlan(c))
        => LET plan == planStore[calls[c].planId]
           IN  plan.status =
                   IF \A i \in DOMAIN plan.steps : plan.steps[i].status = "completed"
                   THEN "completed"
                   ELSE "failed"

\* a returned call that left a failed plan with a completed step in it
C4_Witness ==
    \E c \in DOMAIN calls :
        /\ calls[c].state = "returned"
        /\ planStore[calls[c].planId].status = "failed"
        /\ \E i \in DOMAIN StepsOf(c) : StepsOf(c)[i].status = "completed"

\* C5: a step leaves status pending only when none of its declared
\* dependencies is pending or running.
C5_PendingUntilDependenciesEnd ==
    [][\A p \in DOMAIN planStore \cap DOMAIN planStore' :
          \A i \in DOMAIN planStore[p].steps \cap DOMAIN planStore'[p].steps :
              (/\ planStore[p].steps[i].status = "pending"
               /\ planStore'[p].steps[i].status # "pending")
              => \A j \in DOMAIN planStore[p].steps :
                     planStore[p].steps[j].id
                         \in SeqToSet(planStore[p].steps[i].dependencies)
                     => planStore[p].steps[j].status \in {"completed", "failed"}
      ]_vars

\* a step with dependencies has been started
C5_Witness ==
    \E p \in DOMAIN planStore : \E i \in DOMAIN planStore[p].steps :
        /\ planStore[p].steps[i].dependencies # <<>>
        /\ planStore[p].steps[i].status = "running"

\* the places of the layers of call record cr in or after layer number n
LayerPlaces(cr, n) ==
    UNION {{l} \X DOMAIN cr.layers[l] : l \in {m \in DOMAIN cr.layers : m >= n}}

\* C6: a callback of a layer starts (marks its step running or failed, or
\* invokes the executor) only when every step of every earlier layer is
\* completed or failed.
C6_LayerBarrier ==
    [][\A c \in DOMAIN calls' :
          \A pl \in LayerPlaces(calls'[c], 2) :
              LET id == calls'[c].layers[pl[1]][pl[2]]
                  before == IF c \in DOMAIN calls
                            THEN calls[c]
                            ELSE NewCall(calls'[c].planId, DOMAIN calls'[c].tasks)
                  started == \/ before.tasks[id] # calls'[c].tasks[id]
                                 /\ before.tasks[id] = "not started"
                             \/ before.invoked[id] # calls'[c].invoked[id]
              IN  started =>
                      \A l \in 1..(pl[1] - 1) :
                          \A k \in DOMAIN calls'[c].layers[l] :
                              LET e == calls'[c].layers[l][k]
                                  old == planStore[calls'[c].planId].steps
                              IN  old[StepAt(old, e)].status \in {"completed", "failed"}
      ]_vars

\* a call is past its first layer with an executor call outstanding
C6_Witness ==
    \E c \in DOMAIN calls :
        /\ calls[c].layer >= 2
        /\ \E id \in SeqToSet(calls[c].layers[calls[c].layer]) :
               calls[c].tasks[id] = "awaiting executor"

\* C9: an executePlan call on a stored plan whose dependencies name an unknown
\* id or form a cycle throws the structural error, changes no step and
\* invokes no executor.
C9_StructuralErrorAborts ==
    [][\A c \in DOMAIN calls' \ DOMAIN calls :
          LET planId == calls'[c].planId
          IN  (/\ planId \in DOMAIN planStore
               /\ \/ ~KnownDeps(planStore[planId].steps)
                  \/ HasCycle(planStore[planId].steps))
              => /\ calls'[c].state = "threw"
                 /\ calls'[c].error \in StructuralErrors
                 /\ planStore'[planId].steps = planStore[planId].steps
                 /\ \A id \in DOMAIN calls'[c].tasks :
                        /\ calls'[c].invoked[id] = 0
                        /\ calls'[c].tasks[id] = "not started"
      ]_vars

\* a call threw 'Circular dependency' on a plan with a step that has no
\* dependencies, and every step is still pending
C9_Witness ==
    \E c \in DOMAIN calls :
        /\ calls[c].error = "Circular dependency"
        /\ \E i \in DOMAIN StepsOf(c) : StepsOf(c)[i].dependencies = <<>>
        /\ \A i \in DOMAIN StepsOf(c) :
               StepsOf(c)[i].status = "pending" /\ StepsOf(c)[i].result = Undefined

\* C10: an executePlan call on a stored, structurally valid plan does not
\* throw, whatever its executor calls throw, and a step whose executor threw
\* is failed with result.error the message of the Error or the string form of
\* the value.
C10_ExecutorThrowIsRecorded ==
    \A c \in DOMAIN calls :
        RanOnValidPlan(c) =>
            /\ calls[c].state # "threw"
            /\ LatestOnPlan(c) =>
                   \A id \in DOMAIN calls[c].tasks :
                       ExecutorThrew(c, id) =>
                           /\ StepOf(c, id).status = "failed"
                           /\ StepOf(c, id).result.kind = "error object"
                           /\ StepOf(c, id).result.error = calls[c].outcome[id].text

\* the steps that are failed in the end when exactly the executor calls of the
\* steps in throwers throw: the throwers and every step that depends on one
FailedGiven(steps, throwers) ==
    {id \in StepIdSet(steps) :
        id \in throwers \/ TransitiveDeps(steps, id) \cap throwers # {}}

\* C11: the statuses a returned executePlan call leaves are determined by
\* the plan and by the choice of the steps whose executor calls throw, whatever
\* the order in which the executor calls of a layer settled: a step is failed
\* if it or a step it depends on is among the chosen, completed otherwise, and
\* the plan is completed if no step was chosen, failed otherwise.
C11_SettlingOrderIrrelevant ==
    \A c \in DOMAIN calls :
        (calls[c].state = "returned" /\ LatestOnPlan(c))
        => \A throwers \in SUBSET StepIdSet(StepsOf(c)) :
               (\A id \in StepIdSet(StepsOf(c)) :
                    calls[c].outcome[id].kind # "none"
                    => (ExecutorThrew(c, id) <=> id \in throwers))
               => LET failed == FailedGiven(StepsOf(c), throwers)
                  IN  /\ \A i \in DOMAIN StepsOf(c) :
                             StepsOf(c)[i].status =
                                 IF StepsOf(c)[i].id \in failed
                                 THEN "failed" ELSE "completed"
                      /\ planStore[calls[c].planId].status =
                             IF failed = {} THEN "completed" ELSE "failed"

\* a returned call whose first layer held an executor call that threw and
\* one that returned, with a step behind them
C11_Witness ==
    \E c \in DOMAIN calls :
        /\ calls[c].state = "returned"
        /\ Len(calls[c].layers) >= 2
        /\ \E a, b \in SeqToSet(calls[c].layers[1]) :
               /\ ExecutorThrew(c, a)
               /\ calls[c].outcome[b].kind = "return"

(***************************************************************************)
(* Repeated calls of executePlan on one stored plan.  A template plan is   *)
(* created and left as createPlan built it; executePlan is called on it    *)
(* up to MaxRuns times, each call after the previous one is over and its   *)
(* executor calls have settled.  The executors return, or throw an Error   *)
(* or a string.                                                            *)
(***************************************************************************)
MaxRuns == 2

CoercibleOutcomes ==
    {o \in ExecutorOutcomes : o.kind = "throw" => ~ErrorMessage(o).threw}

NextRerun ==
    \/ \E taskType \in TaskTypes : planStore = NoEntries /\ createPlan(createTestIntent(taskType))
    \/ \E planId \in DOMAIN planStore :
           Len(calls) < MaxRuns /\ Quiescent /\ executePlan(planId)
    \/ \E c \in DOMAIN calls : \E stepId \in DOMAIN calls[c].tasks :
           \E o \in CoercibleOutcomes : SettleExecutor(c, stepId, o)
    \/ \E c \in DOMAIN calls : ResumeExecutePlan(c)

SpecRerun == Init /\ [][NextRerun]_vars

\* C12: a step that is completed or failed keeps that status, and a plan
\* that is completed or failed keeps that status, in every step of the
\* program, a further executePlan call on an executed plan included.
C12_TerminalStatusesStay ==
    [][\A planId \in DOMAIN planStore :
           /\ planStore[planId].status \in {"completed", "failed"}
              => /\ planId \in DOMAIN planStore'
                 /\ planStore'[planId].status = planStore[planId].status
           /\ \A i \in DOMAIN planStore[planId].steps :
                  planStore[planId].steps[i].status \in {"completed", "failed"}
                  => /\ planId \in DOMAIN planStore'
                     /\ i \in DOMAIN planStore'[planId].steps
                     /\ planStore'[planId].steps[i].status =
                            planStore[planId].steps[i].status]_vars

(***************************************************************************)
(* Calls of executePlan that overlap in time.  As SpecRerun, but a call    *)
(* may start while an earlier call on the plan is still awaiting a layer:  *)
(* executePlan is an async function of a module that keeps no record of    *)
(* the calls in progress.                                                  *)
(***************************************************************************)
NextOverlap ==
    \/ \E taskType \in TaskTypes : planStore = NoEntries /\ createPlan(createTestIntent(taskType))
    \/ \E planId \in DOMAIN planStore :
           Len(calls) < MaxRuns /\ executePlan(planId)
    \/ \E c \in DOMAIN calls : \E stepId \in DOMAIN calls[c].tasks :
           \E o \in CoercibleOutcomes : SettleExecutor(c, stepId, o)
    \/ \E c \in DOMAIN calls : ResumeExecutePlan(c)

SpecOverlap == Init /\ [][NextOverlap]_vars

StatusesOf(planId) ==
    {planStore[planId].steps[i].status : i \in DOMAIN planStore[planId].steps}

ExecutorInFlight(planId) ==
    \E c \in DOMAIN calls :
        /\ calls[c].planId = planId
        /\ \E id \in DOMAIN calls[c].tasks : calls[c].tasks[id] = "awaiting executor"

\* C13: in every reachable state, overlapping executePlan calls on one plan
\* included, a completed plan has only completed steps, a failed plan has a
\* failed step and no pending or running step, and the plan is running
\* while an executor call for one of its steps is in flight.
C13_PlanStatusMatchesSteps ==
    \A planId \in DOMAIN planStore :
        /\ planStore[planId].status = "completed"
           => StatusesOf(planId) = {"completed"}
        /\ planStore[planId].status = "failed"
           => /\ "failed" \in StatusesOf(planId)
              /\ StatusesOf(planId) \cap {"pending", "running"} = {}
        /\ ExecutorInFlight(planId) => planStore[planId].status = "running"

ValidGraph(steps) == UniqueIds(steps) /\ KnownDeps(steps) /\ ~HasCycle(steps)

\* C14: an executePlan call on a stored plan with a valid dependency graph,
\* in which no executor call throws, does not throw, and when it has returned
\* the plan is completed, every step is completed with the value its
\* executor call returned as result, and the executor was invoked exactly
\* once for every step.
C14_AllReturnCompletes ==
    \A c \in DOMAIN calls :
        (/\ calls[c].planId \in DOMAIN planStore
         /\ LatestOnPlan(c)
         /\ ValidGraph(StepsOf(c))
         /\ \A id \in DOMAIN calls[c].outcome : ~ExecutorThrew(c, id))
        => /\ calls[c].state # "threw"
           /\ calls[c].state = "returned"
              => /\ planStore[calls[c].planId].status = "completed"
                 /\ \A i \in DOMAIN StepsOf(c) :
                        /\ StepsOf(c)[i].status = "completed"
                        /\ StepsOf(c)[i].result = ValueResult(c)
                        /\ calls[c].outcome[StepsOf(c)[i].id].kind = "return"
                        /\ calls[c].invoked[StepsOf(c)[i].id] = 1

\* a call has returned from a plan of several layers, one of them with two
\* steps, and no executor call threw
C14_Witness ==
    \E c \in DOMAIN calls :
        /\ calls[c].state = "returned"
        /\ ValidGraph(StepsOf(c))
        /\ Len(calls[c].layers) >= 2
        /\ \E l \in DOMAIN calls[c].layers : Len(calls[c].layers[l]) = 2
        /\ \A id \in DOMAIN calls[c].outcome : calls[c].outcome[id].kind = "return"

(***************************************************************************)
(* Spec with progress: an executor call that was made settles, and an      *)
(* executePlan call whose awaited promise is settled takes its next step   *)
(* (the promise jobs of the event loop are run).                           *)
(***************************************************************************)
ExecutorSettles ==
    \E c \in DOMAIN calls : \E stepId \in DOMAIN calls[c].tasks :
        \E o \in ExecutorOutcomes : SettleExecutor(c, stepId, o)

ExecutePlanResumes == \E c \in DOMAIN calls : ResumeExecutePlan(c)

SpecLive == Spec /\ WF_vars(ExecutorSettles) /\ WF_vars(ExecutePlanResumes)

\* C15: when every executor call settles, every executePlan call on a stored
\* plan with a valid dependency graph eventually returns, and it has not
\* returned while a step of the plan is pending or running.
C15_ExecutePlanReturns ==
    /\ \A c \in 1..MaxCalls :
           [](( /\ c \in DOMAIN calls
                /\ calls[c].planId \in DOMAIN planStore
                /\ ValidGraph(StepsOf(c)) )
              => <>(c \in DOMAIN calls /\ calls[c].state = "returned"))
    /\ [](\A c \in DOMAIN calls :
              (calls[c].state = "returned" /\ LatestOnPlan(c))
              => \A i \in DOMAIN StepsOf(c) :
                     StepsOf(c)[i].status \in {"completed", "failed"})

\* C16: in every reachable state, after a further executePlan call on an
\* executed plan too, a pending or running step has no result, the result
\* of a completed step is the value an executor call for it returned, and
\* the result of a failed step is an object with an error message.
C16_ResultMatchesStatus ==
    \A planId \in DOMAIN planStore :
        \A i \in DOMAIN planStore[planId].steps :
            LET step == planStore[planId].steps[i]
            IN  /\ step.status \in {"pending", "running"}
                   => step.result = Undefined
                /\ step.status = "completed"
                   => \E c \in DOMAIN calls :
                          /\ calls[c].planId = planId
                          /\ calls[c].outcome[step.id].kind = "return"
                          /\ step.result = ValueResult(c)
                /\ step.status = "failed"
                   => step.result.kind = "error object"

NotExecuted(planId) == \A c \in DOMAIN calls : calls[c].planId # planId

\* C17: a plan that createPlan stored and executePlan was not yet called for
\* is pending, all its steps are pending and without result, getPlan of its
\* id returns it, and getTaskStatus of each of its step ids returns pending.
C17_CreatedPlanIsPending ==
    \A planId \in DOMAIN planStore :
        NotExecuted(planId)
        => /\ getPlan(planId).id = planId
           /\ getPlan(planId).status = "pending"
           /\ \A i \in DOMAIN getPlan(planId).steps :
                  LET step == getPlan(planId).steps[i]
                  IN  /\ step.status = "pending"
                      /\ step.result = Undefined
                      /\ getTaskStatus(step.id) = StatusReturned("pending")

\* a stored plan of four steps, not executed
C17_Witness ==
    \E planId \in DOMAIN planStore :
        /\ NotExecuted(planId)
        /\ calls = <<>>
        /\ Len(planStore[planId].steps) = 4

\* every dependency id of a step is the id of another step of the list
DependsOnOthers(steps) ==
    \A i \in DOMAIN steps :
        SeqToSet(steps[i].dependencies) \subseteq StepIdSet(steps) \ {steps[i].id}

\* C18: for every task type the steps createPlan builds have pairwise
\* distinct ids, depend only on other steps of the plan and have no
\* dependency cycle, and so has every stored plan that was left as createPlan
\* produced it; no executePlan call on such a plan throws a structural error.
C18_TemplatePlansAreValid ==
    /\ \A taskType \in TaskTypes :
           LET steps == buildSteps(createTestIntent(taskType),
                                   getPlanTemplate(taskType), now, stepCounter)
           IN  /\ UniqueIds(steps)
               /\ DependsOnOthers(steps)
               /\ ~HasCycle(steps)
    /\ edits = 0
       => /\ \A planId \in DOMAIN planStore :
                 /\ UniqueIds(planStore[planId].steps)
                 /\ DependsOnOthers(planStore[planId].steps)
                 /\ ~HasCycle(planStore[planId].steps)
          /\ \A c \in DOMAIN calls :
                 calls[c].planId \in DOMAIN planStore
                 => calls[c].error \notin StructuralErrors

\* executePlan has sorted and run an unmodified plan with dependencies
C18_Witness ==
    /\ edits = 0
    /\ \E c \in DOMAIN calls :
           /\ calls[c].planId \in DOMAIN planStore
           /\ calls[c].state = "returned"
           /\ \E i \in DOMAIN StepsOf(c) : StepsOf(c)[i].dependencies # <<>>

\* the step list has the shape of the strategy_generation template
StrategyShape(steps) ==
    /\ Len(steps) = 4
    /\ steps[1].dependencies = <<>>
    /\ steps[2].dependencies = <<>>
    /\ Len(steps[3].dependencies) = 2
    /\ SeqToSet(steps[3].dependencies) = {steps[1].id, steps[2].id}
    /\ steps[4].dependencies = <<steps[3].id>>

\* three layers: {step 0, step 1}, {step 2}, {step 3}
StrategyLayers(steps, sorted) ==
    /\ sorted.error = "none"
    /\ Len(sorted.layers) = 3
    /\ Len(sorted.layers[1]) = 2
    /\ SeqToSet(sorted.layers[1]) = {steps[1].id, steps[2].id}
    /\ sorted.layers[2] = <<steps[3].id>>
    /\ sorted.layers[3] = <<steps[4].id>>

\* C19: for task type strategy_generation createPlan builds exactly 4 steps,
\* the first two without dependencies, the third depending on exactly the
\* first two and the fourth on exactly the third, and topologicalSort of
\* them returns exactly the layers {step 0, step 1}, {step 2}, {step 3}; the
\* stored plan that holds the generate_strategy step, left as createPlan
\* produced it, has that shape, and executePlan runs it in these layers.
C19_StrategyPlanHasThreeLayers ==
    /\ LET steps == buildSteps(createTestIntent("strategy_generation"),
                               getPlanTemplate("strategy_generation"),
                               now, stepCounter)
       IN  /\ StrategyShape(steps)
           /\ StrategyLayers(steps, topologicalSort(steps))
    /\ \A planId \in DOMAIN planStore :
           (/\ edits = 0
            /\ \E i \in DOMAIN planStore[planId].steps :
                   planStore[planId].steps[i].parameters.descriptionKey
                       = "generate_strategy")
           => /\ StrategyShape(planStore[planId].steps)
              /\ StrategyLayers(planStore[planId].steps,
                                topologicalSort(planStore[planId].steps))
              /\ \A c \in DOMAIN calls :
                     calls[c].planId = planId
                     => StrategyLayers(planStore[planId].steps,
                                       Returned(calls[c].layers))

\* executePlan runs the unmodified plan of a strategy_generation request
C19_Witness ==
    /\ edits = 0
    /\ \E c \in DOMAIN calls :
           /\ calls[c].planId \in DOMAIN planStore
           /\ \E i \in DOMAIN StepsOf(c) :
                  StepsOf(c)[i].parameters.descriptionKey = "generate_strategy"
           /\ Len(calls[c].layers) = 3

\* C20: a step of executePlan (its start, the settling of one of its executor
\* calls, its resumption after a layer) adds or removes no plan and no entry
\* of the step index and leaves every plan's id, createdAt and number of
\* steps and every step's id, type, dependencies and parameters as they were.
C20_ExecutePlanFrame ==
    [][calls' # calls
       => /\ DOMAIN planStore' = DOMAIN planStore
          /\ stepIndex' = stepIndex
          /\ \A planId \in DOMAIN planStore :
                 /\ planStore'[planId].id = planStore[planId].id
                 /\ planStore'[planId].createdAt = planStore[planId].createdAt
                 /\ DOMAIN planStore'[planId].steps = DOMAIN planStore[planId].steps
                 /\ \A i \in DOMAIN planStore[planId].steps :
                        LET old == planStore[planId].steps[i]
                            new == planStore'[planId].steps[i]
                        IN  /\ new.id = old.id
                            /\ new.type = old.type
                            /\ new.dependencies = old.dependencies
                            /\ new.parameters = old.parameters]_vars

\* executePlan has run a plan with dependencies to its end, with a step
\* completed and a step failed
C20_Witness ==
    \E c \in DOMAIN calls :
        /\ calls[c].planId \in DOMAIN planStore
        /\ calls[c].state = "returned"
        /\ planStore[calls[c].planId].status = "failed"
        /\ \E i, j \in DOMAIN StepsOf(c) :
               /\ StepsOf(c)[i].status = "completed"
               /\ StepsOf(c)[j].status = "failed"
               /\ StepsOf(c)[j].dependencies # <<>>

(***************************************************************************)
(* Several plans in the store.  Up to MaxPlans plans are created, at any   *)
(* time, and up to MaxRuns executePlan calls are made on them, one call a  *)
(* plan, which may overlap with the calls on the other plans.              *)
(***************************************************************************)
MaxPlans == 2

\* a request for a single-step plan and one for a plan of two layers
PlanIntents ==
    {createTestIntent("competitor_analysis"), createTestIntent("content_publish")}

NextPlans ==
    \/ \E intent \in PlanIntents : Len(created) < MaxPlans /\ createPlan(intent)
    \/ \E planId \in DOMAIN planStore :
           /\ Len(calls) < MaxRuns
           /\ \A c \in DOMAIN calls : calls[c].planId # planId
           /\ executePlan(planId)
    \/ \E c \in DOMAIN calls : \E stepId \in DOMAIN calls[c].tasks :
           \E o \in ExecutorOutcomes : SettleExecutor(c, stepId, o)
    \/ \E c \in DOMAIN calls : ResumeExecutePlan(c)

SpecPlans == Init /\ [][NextPlans]_vars

\* the executePlan calls that take a step in the transition
SteppingCalls ==
    {c \in DOMAIN calls' : c \notin DOMAIN calls \/ calls'[c] # calls[c]}

\* C21: a step of an executePlan call leaves every stored plan other than the
\* call's own as it was, status, step statuses and results included, also
\* while a call on another plan is in progress; and a createPlan call leaves
\* every plan stored before as it was, also while plans are executing.
C21_PlansAreIndependent ==
    [][/\ \A c \in SteppingCalls :
              \A q \in DOMAIN planStore \ {calls'[c].planId} :
                  q \in DOMAIN planStore' /\ planStore'[q] = planStore[q]
       /\ created' # created
          => \A q \in DOMAIN planStore :
                 q \in DOMAIN planStore' /\ planStore'[q] = planStore[q]]_vars

\* two calls on two different plans are in progress at once, one of them in
\* its second layer
C21_Witness ==
    \E c1, c2 \in DOMAIN calls :
        /\ calls[c1].planId # calls[c2].planId
        /\ calls[c1].state = "awaiting layer"
        /\ calls[c2].state = "awaiting layer"
        /\ calls[c1].layer = 2
        /\ planStore[calls[c2].planId].status = "running"

(***************************************************************************)
(* The store over time.  Up to MaxCreates plans are created, clearAllPlans *)
(* is called at any time between them, and the clock moves on up to        *)
(* MaxNow.  In SpecLookup, with up to MaxPlans plans, getTaskStatus and    *)
(* getPlan are called as well, with the ids handed out so far and with an  *)
(* id that was never handed out.                                           *)
(***************************************************************************)
MaxCreates == 3
MaxNow == 1

\* two requests of one task type that differ in every other field, one of
\* them with parameters that carry keys buildSteps sets itself, and a request
\* of another type
StoreIntents ==
    {createTestIntent("content_publish"),
     [taskType |-> "content_publish", platform |-> "douyin", category |-> "food",
      parameters |-> [descriptionKey |-> "custom", platform |-> "weibo"]],
     createTestIntent("competitor_analysis")}

\* the step ids and plan ids of the plans createPlan has returned so far
CreatedStepIds == UNION {StepIdSet(created[k].plan.steps) : k \in DOMAIN created}
CreatedPlanIds == {created[k].plan.id : k \in DOMAIN created}

NextStore ==
    \/ \E intent \in StoreIntents : Len(created) < MaxCreates /\ createPlan(intent)
    \/ clearAllPlans
    \/ now < MaxNow /\ Tick

SpecStore == Init /\ [][NextStore]_vars

NextLookup ==
    \/ \E intent \in StoreIntents : Len(created) < MaxPlans /\ createPlan(intent)
    \/ clearAllPlans
    \/ now < MaxNow /\ Tick
    \/ \E taskId \in CreatedStepIds \cup {UnknownId} : CallGetTaskStatus(taskId)
    \/ \E planId \in CreatedPlanIds \cup {UnknownPlanId} : CallGetPlan(planId)

SpecLookup == Init /\ [][NextLookup]_vars

StoredStepIds == UNION {StepIdSet(planStore[p].steps) : p \in DOMAIN planStore}

NotFoundErrors ==
    {"Task step not found", "Plan not found for task step",
     "Task step not found in plan"}

\* C22: getTaskStatus throws a not-found error for every id that is not the
\* id of a step of a stored plan, and a getTaskStatus call answers so and
\* changes no stored state; after clearAllPlans getTaskStatus throws for
\* every step id that was stored before and getPlan returns undefined for
\* every plan id that was stored before.
C22_UnknownStepIsNotFound ==
    /\ [](\A taskId \in (CreatedStepIds \cup {UnknownId}) \ StoredStepIds :
              getTaskStatus(taskId).error \in NotFoundErrors)
    /\ [][/\ \A taskId \in (CreatedStepIds \cup {UnknownId}) \ StoredStepIds :
                 CallGetTaskStatus(taskId)
                 => /\ answer'.result.error \in NotFoundErrors
                    /\ UNCHANGED <<planStore, stepIndex, planCounter, stepCounter>>
          /\ clearAllPlans
             => /\ \A taskId \in StoredStepIds :
                       getTaskStatus(taskId)'.error \in NotFoundErrors
                /\ \A planId \in DOMAIN planStore :
                       getPlan(planId)' = UndefinedPlan]_vars

\* clearAllPlans has emptied a store that held a plan, and getTaskStatus was
\* then called with the id of one of that plan's steps
C22_Witness ==
    /\ planStore = NoEntries
    /\ answer.op = "getTaskStatus"
    /\ answer.arg \in CreatedStepIds
    /\ answer.result.error = "Task step not found"

\* C23: an executePlan call with a plan id that is not in the plan store
\* throws the not-found error at once, invokes no executor, and leaves every
\* stored plan, every step and every index entry as they were.
C23_UnknownPlanIsNotFound ==
    [][\A c \in SteppingCalls :
           calls'[c].planId \notin DOMAIN planStore
           => /\ c \notin DOMAIN calls
              /\ calls'[c].state = "threw"
              /\ calls'[c].error = "Plan not found"
              /\ \A id \in DOMAIN calls'[c].invoked : calls'[c].invoked[id] = 0
              /\ \A id \in DOMAIN calls'[c].tasks : calls'[c].tasks[id] = "not started"
              /\ planStore' = planStore
              /\ stepIndex' = stepIndex]_vars

\* executePlan was called with an unknown plan id while a plan was stored
C23_Witness ==
    /\ planStore # NoEntries
    /\ \E c \in DOMAIN calls :
           /\ calls[c].planId \notin DOMAIN planStore
           /\ calls[c].error = "Plan not found"

(***************************************************************************)
(* Reads between the steps of executions.  Plans are created and executed, *)
(* up to MaxCalls calls one after the other, and getTaskStatus and getPlan *)
(* are called at any time, in the middle of an execution too.              *)
(***************************************************************************)
NextReads ==
    \/ \E intent \in PlanIntents : Len(created) < MaxPlans /\ createPlan(intent)
    \/ \E planId \in DOMAIN planStore :
           Len(calls) < MaxCalls /\ Quiescent /\ executePlan(planId)
    \/ \E c \in DOMAIN calls : \E stepId \in DOMAIN calls[c].tasks :
           \E o \in CoercibleOutcomes : SettleExecutor(c, stepId, o)
    \/ \E c \in DOMAIN calls : ResumeExecutePlan(c)
    \/ \E taskId \in DOMAIN stepIndex \cup {UnknownId} : CallGetTaskStatus(taskId)
    \/ \E planId \in DOMAIN planStore \cup {UnknownPlanId} : CallGetPlan(planId)

SpecReads == Init /\ [][NextReads]_vars

\* C24: a getTaskStatus or getPlan call gives what the lookup finds and
\* changes no plan, step, store, index or counter; and a transition that is
\* not a step of an executePlan call leaves what getTaskStatus gives for
\* every stored step as it was, so that two getTaskStatus calls for a step
\* with no executePlan step in between give the same status.
C24_ReadsArePure ==
    [][/\ answer' # answer
          => /\ UNCHANGED <<planStore, stepIndex, planCounter, stepCounter,
                            calls, created>>
             /\ answer'.op = "getTaskStatus"
                => answer'.result = getTaskStatus(answer'.arg)
             /\ answer'.op = "getPlan"
                => answer'.result = getPlan(answer'.arg)
       /\ calls' = calls
          => \A taskId \in StoredStepIds :
                 getTaskStatus(taskId)' = getTaskStatus(taskId)]_vars

\* getTaskStatus answered running for a step in the middle of an execution
C24_Witness ==
    /\ answer.op = "getTaskStatus"
    /\ answer.result = StatusReturned("running")
    /\ getTaskStatus(answer.arg) = StatusReturned("running")
    /\ \E c \in DOMAIN calls : calls[c].state = "awaiting layer"

\* C25: among all plans createPlan has ever returned, with clearAllPlans
\* calls between them and a clock that does not go backwards, no two plans
\* have the same id and no two steps, of one plan or of two, have the same id.
C25_IdsAreUnique ==
    \A j, k \in DOMAIN created :
        /\ UniqueIds(created[k].plan.steps)
        /\ j # k
           => /\ created[j].plan.id # created[k].plan.id
              /\ StepIdSet(created[j].plan.steps)
                     \cap StepIdSet(created[k].plan.steps) = {}

\* the task types getPlanTemplate has a case for
TemplatedTypes == {"strategy_generation", "content_publish", "operation_summary"}

\* C26: there is a template with steps for every task type, so that
\* createPlan does not fail, and for a task type without a case of its own, a value outside the known task types
\* included, the plan it returns has exactly one step, of that type, with an
\* empty dependency list.
C26_DefaultPlanHasOneStep ==
    /\ \A taskType \in TaskTypes :
           Len(getPlanTemplate(taskType).steps) >= 1
    /\ \A taskType \in TaskTypes \ TemplatedTypes :
           LET steps == buildSteps(createTestIntent(taskType),
                                   getPlanTemplate(taskType), now, stepCounter)
           IN  /\ Len(steps) = 1
               /\ steps[1].type = taskType
               /\ steps[1].dependencies = <<>>
    /\ \A k \in DOMAIN created :
           created[k].intent.taskType \notin TemplatedTypes
           => /\ Len(created[k].plan.steps) = 1
              /\ created[k].plan.steps[1].type = created[k].intent.taskType
              /\ created[k].plan.steps[1].dependencies = <<>>
              /\ created[k].plan.id \in DOMAIN planStore

\* createPlan has returned a plan for a task type outside the known ones
C26_Witness ==
    \E k \in DOMAIN created :
        /\ created[k].intent.taskType = "unknown_type"
        /\ created[k].plan.id \in DOMAIN planStore
        /\ Len(planStore[created[k].plan.id].steps) = 1

\* number of steps, step types in order, and for every step the positions of
\* the steps its dependencies name
PlanShape(steps) ==
    [i \in DOMAIN steps |->
        [type |-> steps[i].type,
         dependencies |->
             [d \in DOMAIN steps[i].dependencies |->
                 {j \in DOMAIN steps : steps[j].id = steps[i].dependencies[d]}]]]

\* an intent of the task type with other values in all other fields
OtherIntent(taskType) ==
    [taskType |-> taskType, platform |-> "douyin", category |-> "food",
     parameters |-> [descriptionKey |-> "custom", platform |-> "weibo"]]

\* C27: two plans createPlan returned for the same task type have the same
\* number of steps, the same step types in the same order and the same
\* dependencies by step position, whatever the other fields of the two
\* requests, the clock, and the plans created and cleared in between.
C27_ShapeDependsOnTaskTypeOnly ==
    /\ \A j, k \in DOMAIN created :
           created[j].intent.taskType = created[k].intent.taskType
           => PlanShape(created[j].plan.steps) = PlanShape(created[k].plan.steps)
    /\ \A taskType \in TaskTypes :
           PlanShape(buildSteps(createTestIntent(taskType),
                                getPlanTemplate(taskType), now, stepCounter))
               = PlanShape(buildSteps(OtherIntent(taskType),
                                      getPlanTemplate(taskType), 0, 0))

\* two plans of two layers were returned for requests of one task type that
\* differ in their other fields, with a plan of another type between them
C27_Witness ==
    /\ Len(created) = 3
    /\ created[1].intent.taskType = "content_publish"
    /\ created[3].intent.taskType = "content_publish"
    /\ created[1].intent # created[3].intent
    /\ created[2].intent.taskType # "content_publish"
    /\ created[1].plan.steps[1].id # created[3].plan.steps[1].id

\* C28: an executePlan call that throws a structural error (unknown
\* dependency, cycle) leaves the plan's status as it was before the call,
\* and not running.
C28_StructuralErrorLeavesStatus ==
    [][\A c \in SteppingCalls :
           calls'[c].error \in StructuralErrors
           => /\ planStore'[calls'[c].planId].status
                     = planStore[calls'[c].planId].status
              /\ planStore'[calls'[c].planId].status # "running"]_vars

\* the steps of the layer the call is in
CurrentLayer(c) ==
    IF calls[c].layer \in DOMAIN calls[c].layers
    THEN SeqToSet(calls[c].layers[calls[c].layer])
    ELSE {}

\* C29: when executePlan waits for a layer, every step of the layer has been
\* dealt with: a step with a failed dependency is failed without an executor
\* call, every other step has had its executor invoked and was marked
\* running; and an executor call of the layer that is outstanding can settle
\* whatever the other executor calls of the layer have done or not done.
C29_LayerDispatchedTogether ==
    \A c \in DOMAIN calls :
        \A id \in CurrentLayer(c) :
            /\ calls[c].tasks[id] # "not started"
            /\ calls[c].tasks[id] = "cascaded"
               <=> DirectDeps(StepsOf(c), id) \cap calls[c].failedStepIds # {}
            /\ calls[c].tasks[id] # "cascaded" => calls[c].invoked[id] = 1
            /\ (calls[c].tasks[id] = "awaiting executor" /\ LatestOnPlan(c))
               => StepOf(c, id).status = "running"
            /\ calls[c].tasks[id] = "awaiting executor"
               => ENABLED SettleExecutor(c, id, Return)

\* in a layer of two steps one executor call has returned and its step is
\* completed while the other call is still outstanding
C29_Witness ==
    \E c \in DOMAIN calls :
        \E a, b \in CurrentLayer(c) :
            /\ calls[c].state = "awaiting layer"
            /\ calls[c].tasks[a] = "settled"
            /\ StepOf(c, a).status = "completed"
            /\ calls[c].tasks[b] = "awaiting executor"
            /\ StepOf(c, b).status = "running"

\* the number of steps of the longest dependency chain that ends at the step
RECURSIVE ChainLength(_, _, _)
ChainLength(steps, id, fuel) ==
    IF fuel = 0 \/ DirectDeps(steps, id) = {} THEN 1
    ELSE LET lengths == {ChainLength(steps, d, fuel - 1) : d \in DirectDeps(steps, id)}
         IN  1 + CHOOSE m \in lengths : \A n \in lengths : n <= m

\* C30: for a step list with unique ids, only known dependencies and no
\* cycle, topologicalSort puts every step in the layer whose number is the
\* length of the longest dependency chain ending at the step, the steps
\* without dependencies in the first; this holds for every order of the
\* list, every order of the ids in a dependencies array, and for arrays that
\* name an id more than once.
C30_LayerIsLongestChain ==
    (/\ sortResult # NotCalled
     /\ UniqueIds(sortInput) /\ KnownDeps(sortInput) /\ ~HasCycle(sortInput))
    => /\ sortResult.error = "none"
       /\ \A id \in StepIdSet(sortInput) :
              /\ Places(sortResult.layers, id) # {}
              /\ \A place \in Places(sortResult.layers, id) :
                     place[1] = ChainLength(sortInput, id, Len(sortInput))
       /\ \A l \in DOMAIN sortResult.layers : sortResult.layers[l] # <<>>

\* a step listed before the steps it depends on, with one of them named
\* twice, is placed in the third layer
C30_Witness ==
    /\ sortResult.error = "none"
    /\ Len(sortInput) = 3
    /\ Len(sortInput[1].dependencies) >= 2
    /\ \E d, e \in DOMAIN sortInput[1].dependencies :
           d # e /\ sortInput[1].dependencies[d] = sortInput[1].dependencies[e]
    /\ Places(sortResult.layers, sortInput[1].id) = {<<3, 1>>}

\* the executor is invoked for the step by call c in the transition
InvokedIn(c, id) ==
    calls'[c].invoked[id] > (IF c \in DOMAIN calls THEN calls[c].invoked[id] ELSE 0)

\* C31: whenever an executePlan call invokes the executor for a step, every
\* dependency of the step has status completed at that moment: none of them
\* is pending, running or failed.
C31_InvokedAfterDependenciesCompleted ==
    [][\A c \in DOMAIN calls' :
           \A id \in DOMAIN calls'[c].tasks :
               InvokedIn(c, id)
               => LET steps == planStore'[calls'[c].planId].steps
                  IN  \A d \in DirectDeps(steps, id) :
                          steps[StepAt(steps, d)].status = "completed"]_vars

\* the executor of a step with a completed dependency is outstanding, and
\* in the same layer a step was failed without an executor call
C31_Witness ==
    \E c \in DOMAIN calls :
        \E a, b \in CurrentLayer(c) :
            /\ calls[c].tasks[a] = "awaiting executor"
            /\ calls[c].invoked[a] = 1
            /\ DirectDeps(StepsOf(c), a) # {}
            /\ \A d \in DirectDeps(StepsOf(c), a) : StepOf(c, d).status = "completed"
            /\ calls[c].tasks[b] = "cascaded"
            /\ calls[c].invoked[b] = 0

\* C32: an executePlan call invokes the executor at most once for a step,
\* and when a call on a structurally valid plan is over it has invoked the
\* executor exactly once for every step none of whose direct or transitive
\* dependencies failed in the call.
C32_InvokedExactlyOnce ==
    \A c \in DOMAIN calls :
        /\ \A id \in DOMAIN calls[c].tasks : calls[c].invoked[id] <= 1
        /\ (RanOnValidPlan(c) /\ calls[c].state \in {"returned", "threw"})
           => \A id \in DOMAIN calls[c].tasks :
                  (\A d \in TransitiveDeps(StepsOf(c), id) : ~ExecutorThrew(c, d))
                  => calls[c].invoked[id] = 1

(***************************************************************************)
(* Creating, executing and clearing.  Up to MaxPlans plans are created and *)
(* up to MaxCalls executePlan calls are made, one after the other, with    *)
(* clearAllPlans called at any time at which no call is in progress, and   *)
(* the clock moving on up to MaxNow.                                       *)
(***************************************************************************)
NextConsistency ==
    \/ \E intent \in PlanIntents : Len(created) < MaxPlans /\ createPlan(intent)
    \/ \E planId \in DOMAIN planStore :
           Len(calls) < MaxCalls /\ Quiescent /\ executePlan(planId)
    \/ \E c \in DOMAIN calls : \E stepId \in DOMAIN calls[c].tasks :
           \E o \in ExecutorOutcomes : SettleExecutor(c, stepId, o)
    \/ \E c \in DOMAIN calls : ResumeExecutePlan(c)
    \/ Quiescent /\ clearAllPlans
    \/ now < MaxNow /\ Tick

SpecConsistency == Init /\ [][NextConsistency]_vars

\* C33: the step index holds exactly the step ids of the stored plans and
\* maps each of them to the id of the one stored plan that contains the
\* step, so getTaskStatus gives neither 'plan not found for task step' nor
\* 'not found in plan', for any id.
C33_StoreAndIndexConsistent ==
    /\ DOMAIN stepIndex = StoredStepIds
    /\ \A id \in DOMAIN stepIndex :
           /\ stepIndex[id] \in DOMAIN planStore
           /\ \A q \in DOMAIN planStore :
                  id \in StepIdSet(planStore[q].steps) <=> q = stepIndex[id]
    /\ \A id \in CreatedStepIds \cup DOMAIN stepIndex \cup {UnknownId} :
           getTaskStatus(id).error \in {"none", "Task step not found"}

\* a plan created after a clearAllPlans call has been executed, and its
\* steps resolve through the index while those of the cleared plan do not
C33_Witness ==
    /\ Len(created) = 2
    /\ Cardinality(DOMAIN planStore) = 1
    /\ created[1].plan.id # created[2].plan.id
    /\ \E c \in DOMAIN calls :
           /\ calls[c].state = "returned"
           /\ calls[c].planId = created[2].plan.id
    /\ getPlan(created[2].plan.id).status \in {"completed", "failed"}
    /\ \A id \in StepIdSet(created[2].plan.steps) : getTaskStatus(id).error = "none"
    /\ \A id \in StepIdSet(created[1].plan.steps) :
           getTaskStatus(id).error = "Task step not found"

\* call c starts a layer in the transition
StartsLayer(c) ==
    /\ calls'[c].layer \in DOMAIN calls'[c].layers
    /\ c \in DOMAIN calls => calls'[c].layer > calls[c].layer

\* the ids of the steps in the layers before layer n
EarlierLayers(layers, n) ==
    UNION {SeqToSet(layers[l]) : l \in 1..(n - 1)}

\* C34: at the moment an executePlan call starts a layer, its failedStepIds
\* set holds exactly the steps of the earlier layers whose status is failed,
\* and a step of the layer is failed without an executor call exactly if
\* one of its dependencies has status failed at that moment.
C34_FailedSetMatchesStatuses ==
    [][\A c \in DOMAIN calls' :
           StartsLayer(c)
           => LET steps == planStore[calls'[c].planId].steps
                  failedStepIds == IF c \in DOMAIN calls
                                   THEN calls[c].failedStepIds ELSE {}
                  Failed(id) == steps[StepAt(steps, id)].status = "failed"
              IN  /\ failedStepIds
                         = {id \in EarlierLayers(calls'[c].layers, calls'[c].layer) :
                                Failed(id)}
                  /\ \A id \in SeqToSet(calls'[c].layers[calls'[c].layer]) :
                         calls'[c].tasks[id] = "cascaded"
                         <=> \E d \in DirectDeps(steps, id) : Failed(d)]_vars

\* a call is in its third layer, and its failedStepIds holds a step of the
\* first layer whose executor threw and a step of the second layer that was
\* failed without an executor call
C34_Witness ==
    \E c \in DOMAIN calls :
        /\ calls[c].layer = 3
        /\ \E a \in SeqToSet(calls[c].layers[1]), b \in SeqToSet(calls[c].layers[2]) :
               /\ {a, b} \subseteq calls[c].failedStepIds
               /\ ExecutorThrew(c, a)
               /\ calls[c].tasks[b] = "cascaded"
        /\ \E id \in CurrentLayer(c) : calls[c].tasks[id] = "cascaded"

====
